---- MODULE Spec2Model ----
(***************************************************************************)
(* Root finding of numeric_calc: the crate root (src/src/lib.rs) and the   *)
(* module root (src/src/root.rs) each define newton_root, bissec_root,     *)
(* bissec_root_many and calculate_sign_change.  Definitions named after a  *)
(* function model root.rs; the ones prefixed lib_ model the function of    *)
(* the same name in lib.rs.                                                *)
(*                                                                         *)
(* Numbers.  An f64 is modelled as a rational <<n, d>> in lowest terms     *)
(* with d > 0, or as one of the three non-finite values a division by      *)
(* zero produces: <<1, 0>> (+inf), <<-1, 0>> (-inf), <<0, 0>> (NaN).       *)
(* Every operation rounds its result to the nearest value with a           *)
(* significand of MantissaBits bits, ties to even, as IEEE 754 does; the   *)
(* exponent is unbounded.  The non-finite values follow IEEE 754 too.      *)
(***************************************************************************)
EXTENDS Integers, Sequences, FiniteSets, TLC

----------------------------------------------------------------------------
(* f64 arithmetic *)

\* Bits of an f64's significand the model keeps (f64 keeps 53): TLC's integers
\* are 32 bits wide.
MantissaBits == 24

IAbs(i) == IF i < 0 THEN -i ELSE i

RECURSIVE Gcd(_, _)
Gcd(a, b) == IF b = 0 THEN a ELSE Gcd(b, a % b)

RECURSIVE BitLen(_)
BitLen(a) == IF a = 0 THEN 0 ELSE 1 + BitLen(a \div 2)

Rat(n, d) ==
    LET g == Gcd(IAbs(n), IAbs(d))
        s == IF d < 0 THEN -1 ELSE 1
    IN  << (s * n) \div g, (s * d) \div g >>

NaN == << 0, 0 >>
Inf(s) == << s, 0 >>
Zero == << 0, 1 >>
One == << 1, 1 >>
Two == << 2, 1 >>

IsNaN(x) == x = NaN
IsFinite(x) == x[2] # 0
Sgn(x) == IF x[1] > 0 THEN 1 ELSE IF x[1] < 0 THEN -1 ELSE 0

\* a / q rounded to the nearest integer, a tie to the even one.
RoundHalfEven(a, q) ==
    LET f == a \div q
        r == a % q
    IN  IF 2 * r < q THEN f
        ELSE IF 2 * r > q THEN f + 1
        ELSE f + (f % 2)

\* The least k from k0 on with a * 2^k / d of MantissaBits bits.
RECURSIVE ScaleUp(_, _, _)
ScaleUp(a, d, k) ==
    IF BitLen((a * 2^k) \div d) >= MantissaBits THEN k ELSE ScaleUp(a, d, k + 1)

\* The f64 nearest to the rational x: its significand rounded to MantissaBits
\* bits, ties to even.  The exponent is unbounded: no overflow, no underflow.
Fl(x) ==
    IF ~IsFinite(x) \/ x[1] = 0 THEN x
    ELSE LET a == IAbs(x[1])
             d == x[2]
             s == Sgn(x)
         IN  IF d = 2^(BitLen(d) - 1)
             THEN LET sh == BitLen(a) - MantissaBits
                  IN  IF sh <= 0 THEN x
                      ELSE Rat(s * RoundHalfEven(a, 2^sh) * 2^sh, d)
             ELSE LET bl == BitLen(a \div d)
                  IN  IF bl >= MantissaBits
                      THEN LET sh == bl - MantissaBits
                           IN  Rat(s * RoundHalfEven(a, d * 2^sh) * 2^sh, 1)
                      ELSE LET k == ScaleUp(a, d, MantissaBits - bl)
                           IN  Rat(s * RoundHalfEven(a * 2^k, d), 2^k)

Neg(x) == << -x[1], x[2] >>
Abs(x) == << IAbs(x[1]), x[2] >>

Add(x, y) ==
    IF IsNaN(x) \/ IsNaN(y) THEN NaN
    ELSE IF ~IsFinite(x) THEN (IF ~IsFinite(y) /\ y # x THEN NaN ELSE x)
    ELSE IF ~IsFinite(y) THEN y
    ELSE LET g == Gcd(x[2], y[2])
         IN  Fl(Rat(x[1] * (y[2] \div g) + y[1] * (x[2] \div g),
                    x[2] * (y[2] \div g)))

Sub(x, y) == Add(x, Neg(y))

Mul(x, y) ==
    IF IsNaN(x) \/ IsNaN(y) THEN NaN
    ELSE IF ~IsFinite(x) \/ ~IsFinite(y)
         THEN (IF Sgn(x) = 0 \/ Sgn(y) = 0 THEN NaN ELSE Inf(Sgn(x) * Sgn(y)))
    ELSE LET g1 == Gcd(IAbs(x[1]), y[2])
             g2 == Gcd(IAbs(y[1]), x[2])
         IN  Fl(Rat((x[1] \div g1) * (y[1] \div g2),
                    (x[2] \div g2) * (y[2] \div g1)))

\* x / y.  A zero divisor is +0.0: it only ever comes from a difference of
\* equal values or from the literal 0.0.
Div(x, y) ==
    IF IsNaN(x) \/ IsNaN(y) THEN NaN
    ELSE IF ~IsFinite(y) THEN (IF IsFinite(x) THEN Zero ELSE NaN)
    ELSE IF ~IsFinite(x) THEN Inf(IF Sgn(y) < 0 THEN -Sgn(x) ELSE Sgn(x))
    ELSE IF y[1] = 0 THEN (IF x[1] = 0 THEN NaN ELSE Inf(Sgn(x)))
    ELSE Mul(x, << Sgn(y) * y[2], IAbs(y[1]) >>)

\* x < y; every comparison with NaN is false.
Lt(x, y) ==
    /\ ~IsNaN(x)
    /\ ~IsNaN(y)
    /\ IF IsFinite(x) /\ IsFinite(y)
       THEN LET g == Gcd(x[2], y[2])
            IN  x[1] * (y[2] \div g) < y[1] * (x[2] \div g)
       ELSE IF ~IsFinite(x) /\ ~IsFinite(y) THEN x[1] < y[1]
       ELSE IF ~IsFinite(x) THEN x[1] < 0
       ELSE y[1] > 0

Gt(x, y) == Lt(y, x)
Eq(x, y) == ~IsNaN(x) /\ ~IsNaN(y) /\ x = y
Le(x, y) == Lt(x, y) \/ Eq(x, y)

\* Option<T>: None is the empty sequence, Some(v) the sequence of v alone.
None == << >>
Some(v) == << v >>
unwrap_or(o, dflt) == IF o = None THEN dflt ELSE o[1]

----------------------------------------------------------------------------
\* The literal 1.0e-16.  TLC's integers are 32 bits wide, so the model scales
\* it to 2^-13: below every positive residual of the model except the ones
\* placed in (0, 1.0e-16] on purpose.
Eps == Rat(1, 2^13)

----------------------------------------------------------------------------
(* The caller's function fx: fn(f64) -> f64.  A value of the family is the *)
(* closure |x| sq*x*x + a*x + b whose (a, b) is `neg` left of 0 and `pos`  *)
(* from 0 on; a term whose coefficient is zero is not part of the closure. *)

Term(c, v) == IF c = Zero THEN Zero ELSE Mul(c, v)

Apply(fx, x) ==
    LET p == IF Lt(x, Zero) THEN fx.neg ELSE fx.pos
    IN  Add(Add(Term(fx.sq, Mul(x, x)), Term(p[1], x)), p[2])

Fn(sq, a1, b1, a2, b2) == [sq |-> sq, neg |-> << a1, b1 >>, pos |-> << a2, b2 >>]
Linear(a, b) == Fn(Zero, a, b, a, b)

----------------------------------------------------------------------------
(* lib.rs: the derivative estimator *)

RECURSIVE derivative_loop(_, _, _, _, _)
derivative_loop(fx, x, h, derivative, steps_left) ==
    IF steps_left = 0 THEN derivative
    ELSE LET left_x == Apply(fx, Sub(x, h))
             right_x == Apply(fx, Add(x, h))
         IN  derivative_loop(fx, x, Div(h, Two),
                             Div(Sub(right_x, left_x), Mul(Two, h)),
                             steps_left - 1)

calculate_derivative(fx, x, n_steps) ==
    derivative_loop(fx, x, One, Zero, unwrap_or(n_steps, 20))

----------------------------------------------------------------------------
(* root.rs *)

calculate_sign_change(fx, xmin, xmax) ==
    Lt(Abs(Add(Apply(fx, xmin), Apply(fx, xmax))),
       Add(Abs(Apply(fx, xmin)), Abs(Apply(fx, xmax))))

\* A call of bissec_root in progress: pc is "loop" before each evaluation of
\* the while condition and "returned" after a return, ret the value returned.
bissec_root_enter(fx, xmin, xmax, precision) ==
    LET prec == unwrap_or(precision, Zero)
        xmed == Div(Add(xmin, xmax), One)
        fr == [pc |-> "returned", xmin |-> xmin, xmax |-> xmax, xmed |-> xmed,
               precision |-> prec, ret |-> None]
    IN  IF Eq(Apply(fx, xmin), Neg(One)) THEN [fr EXCEPT !.ret = Some(xmin)]
        ELSE IF Eq(Apply(fx, xmax), Neg(One)) THEN [fr EXCEPT !.ret = Some(xmax)]
        ELSE IF calculate_sign_change(fx, xmin, xmax) THEN [fr EXCEPT !.pc = "loop"]
        ELSE fr

bissec_root_step(fx, fr) ==
    IF Gt(Abs(Apply(fx, fr.xmed)), fr.precision)
    THEN LET xmax == IF calculate_sign_change(fx, fr.xmin, fr.xmed)
                     THEN fr.xmed ELSE fr.xmax
             xmin == IF ~calculate_sign_change(fx, fr.xmin, fr.xmed)
                        /\ calculate_sign_change(fx, fr.xmed, fr.xmax)
                     THEN fr.xmed ELSE fr.xmin
         IN  [fr EXCEPT !.xmin = xmin, !.xmax = xmax,
                        !.xmed = Div(Add(xmin, xmax), One)]
    ELSE [fr EXCEPT !.pc = "returned", !.ret = Some(fr.xmed)]

\* The call run to its return, or cut after `fuel` evaluations of the loop
\* condition (pc is then still "loop").
RECURSIVE bissec_root_run(_, _, _)
bissec_root_run(fx, fr, fuel) ==
    IF fr.pc = "returned" \/ fuel = 0 THEN fr
    ELSE bissec_root_run(fx, bissec_root_step(fx, fr), fuel - 1)

bissec_root(fx, xmin, xmax, precision, fuel) ==
    bissec_root_run(fx, bissec_root_enter(fx, xmin, xmax, precision), fuel)

newton_root_enter(fx, xo, precision) ==
    [pc |-> "loop", xn |-> xo, root |-> Apply(fx, xo),
     precision |-> unwrap_or(precision, Zero)]

newton_root_step(fx, fr) ==
    IF Gt(Abs(fr.root), fr.precision)
    THEN LET xn == Sub(fr.xn, Div(Apply(fx, fr.xn),
                                  calculate_derivative(fx, fr.xn, None)))
         IN  [fr EXCEPT !.xn = xn, !.root = Apply(fx, xn)]
    ELSE [fr EXCEPT !.pc = "returned"]

----------------------------------------------------------------------------
(* lib.rs *)

lib_calculate_sign_change(fx, xmin, xmax) ==
    Lt(Abs(Add(Apply(fx, xmin), Apply(fx, xmax))),
       Add(Abs(Apply(fx, xmin)), Abs(Apply(fx, xmax))))

lib_bissec_root_enter(fx, xmin, xmax, precision) ==
    LET prec == unwrap_or(precision, Eps)
        xmed == Div(Add(xmin, xmax), Two)
        fr == [pc |-> "returned", xmin |-> xmin, xmax |-> xmax, xmed |-> xmed,
               precision |-> prec, ret |-> None]
    IN  IF Eq(Apply(fx, xmin), Zero) THEN [fr EXCEPT !.ret = Some(xmin)]
        ELSE IF Eq(Apply(fx, xmax), Zero) THEN [fr EXCEPT !.ret = Some(xmax)]
        ELSE IF lib_calculate_sign_change(fx, xmin, xmax) THEN [fr EXCEPT !.pc = "loop"]
        ELSE fr

lib_bissec_root_step(fx, fr) ==
    IF Gt(Abs(Apply(fx, fr.xmed)), fr.precision)
    THEN LET xmax == IF lib_calculate_sign_change(fx, fr.xmin, fr.xmed)
                     THEN fr.xmed ELSE fr.xmax
             xmin == IF ~lib_calculate_sign_change(fx, fr.xmin, fr.xmed)
                        /\ lib_calculate_sign_change(fx, fr.xmed, fr.xmax)
                     THEN fr.xmed ELSE fr.xmin
         IN  [fr EXCEPT !.xmin = xmin, !.xmax = xmax,
                        !.xmed = Div(Add(xmin, xmax), Two)]
    ELSE [fr EXCEPT !.pc = "returned", !.ret = Some(fr.xmed)]

lib_newton_root_enter(fx, xo, precision) ==
    [pc |-> "loop", xn |-> xo, root |-> Apply(fx, xo),
     precision |-> unwrap_or(precision, Eps)]

lib_newton_root_step(fx, fr) ==
    IF Gt(Abs(fr.root), fr.precision)
    THEN LET xn == Sub(fr.xn, Div(Apply(fx, fr.xn),
                                  calculate_derivative(fx, fr.xn, None)))
         IN  [fr EXCEPT !.xn = xn, !.root = Apply(fx, xn)]
    ELSE [fr EXCEPT !.pc = "returned"]

RECURSIVE lib_bissec_root_run(_, _, _)
lib_bissec_root_run(fx, fr, fuel) ==
    IF fr.pc = "returned" \/ fuel = 0 THEN fr
    ELSE lib_bissec_root_run(fx, lib_bissec_root_step(fx, fr), fuel - 1)

lib_bissec_root(fx, xmin, xmax, precision, fuel) ==
    lib_bissec_root_run(fx, lib_bissec_root_enter(fx, xmin, xmax, precision), fuel)

----------------------------------------------------------------------------
(* bissec_root_many: the parts that are not a step of a thread *)

\* root.rs: the values of i in `for i in -1..num_intervals` and the
\* sub-interval the task spawned for i runs bissec_root on.
task_indices(num_intervals) == -1 .. (num_intervals - 1)

sub_interval(xmin, delx, i) ==
    << Add(xmin, Mul(Rat(i, 1), delx)), Add(xmin, Mul(Rat(i + 0, 1), delx)) >>

\* lib.rs: the same for `for i in 0..num_intervals`.
lib_task_indices(num_intervals) == 0 .. (num_intervals - 1)

lib_sub_interval(xmin, delx, i) ==
    << Add(xmin, Mul(Rat(i, 1), delx)), Add(xmin, Mul(Rat(i + 1, 1), delx)) >>

\* Vec::dedup: of every run of consecutive equal elements the first is kept.
RECURSIVE dedup(_)
dedup(v) ==
    IF Len(v) <= 1 THEN v
    ELSE LET rest == dedup(Tail(v))
         IN  IF Eq(Head(v), Head(rest)) THEN rest ELSE << Head(v) >> \o rest

\* sort_by(|a, b| a.partial_cmp(b).unwrap()): a stable sort, ascending.
RECURSIVE insert_sorted(_, _)
insert_sorted(v, x) ==
    IF v = << >> THEN << x >>
    ELSE IF Lt(x, Head(v)) THEN << x >> \o v
    ELSE << Head(v) >> \o insert_sorted(Tail(v), x)

RECURSIVE sort_by(_)
sort_by(v) ==
    IF v = << >> THEN v
    ELSE insert_sorted(sort_by(SubSeq(v, 1, Len(v) - 1)), v[Len(v)])

----------------------------------------------------------------------------
(* State *)

VARIABLES
    impl,     \* "root": the call is to the function of root.rs; "lib": of lib.rs
    fx,       \* the function passed in
    args,     \* the other arguments of the call
    iters,    \* evaluations of a loop condition so far
    bis,      \* bissec_root: the call in progress
    nwt,      \* newton_root: the call in progress
    sgn,      \* calculate_sign_change: the call in progress
    main,     \* bissec_root_many: the calling thread
    threads,  \* bissec_root_many: the threads spawned, in the order of `threads`
    roots,    \* bissec_root_many: the Vec behind roots_ref
    lock,     \* bissec_root_many: the thread holding the write lock, 0 if none
    result    \* bissec_root_many: the Vec returned

callvars == << impl, fx, args, iters >>
manyvars == << main, threads, roots, lock, result >>
vars == << impl, fx, args, iters, bis, nwt, sgn, main, threads, roots, lock, result >>

\* Evaluations of a loop condition the model follows in one call.
MaxIter == 6

R(n) == Rat(n, 1)

Impls == {"root", "lib"}

Idle == [pc |-> "idle"]
Called == [pc |-> "call"]

ManyIdle ==
    /\ main = Idle
    /\ threads = << >>
    /\ roots = << >>
    /\ lock = 0
    /\ result = << >>

----------------------------------------------------------------------------
(* bissec_root, one evaluation of the loop condition per step *)

BisectFx ==
    { Linear(R(1), R(0)),                    \* x
      Linear(R(-1), R(0)),                   \* -x
      Linear(R(3), R(-1)),                   \* 3x - 1: the root is no dyadic number
      Linear(R(1), Eps),                     \* x + 1e-16
      Linear(R(0), R(0)),                    \* 0
      Fn(One, R(1), R(-6), R(1), R(-6)),     \* x^2 + x - 6
      Fn(Zero, R(0), R(-2), R(0), R(2)) }    \* -2 left of 0, 2 from 0 on

BisectX == { R(-3), R(-1), R(0), R(1), R(2), R(4), R(5), R(10) }

Precisions == { None, Some(Zero), Some(Rat(1, 2)), Some(R(2)) }

BisectInit ==
    /\ impl \in Impls
    /\ fx \in BisectFx
    /\ args \in { [xmin |-> a, xmax |-> b, precision |-> p] :
                    a \in BisectX, b \in BisectX, p \in Precisions }
    /\ Le(args.xmin, args.xmax)
    /\ iters = 0
    /\ bis = Called
    /\ nwt = Idle
    /\ sgn = Idle
    /\ ManyIdle

BissecCall ==
    /\ impl = "root"
    /\ bis.pc = "call"
    /\ bis' = bissec_root_enter(fx, args.xmin, args.xmax, args.precision)
    /\ UNCHANGED << callvars, nwt, sgn, manyvars >>

BissecLoop ==
    /\ impl = "root"
    /\ bis.pc = "loop"
    /\ iters < MaxIter
    /\ bis' = bissec_root_step(fx, bis)
    /\ iters' = iters + 1
    /\ UNCHANGED << impl, fx, args, nwt, sgn, manyvars >>

LibBissecCall ==
    /\ impl = "lib"
    /\ bis.pc = "call"
    /\ bis' = lib_bissec_root_enter(fx, args.xmin, args.xmax, args.precision)
    /\ UNCHANGED << callvars, nwt, sgn, manyvars >>

LibBissecLoop ==
    /\ impl = "lib"
    /\ bis.pc = "loop"
    /\ iters < MaxIter
    /\ bis' = lib_bissec_root_step(fx, bis)
    /\ iters' = iters + 1
    /\ UNCHANGED << impl, fx, args, nwt, sgn, manyvars >>

----------------------------------------------------------------------------
(* newton_root, one evaluation of the loop condition per step.  The        *)
(* functions have no square term: 20 halvings of h put x*x beyond TLC's    *)
(* integers.                                                               *)

NewtonFx ==
    { Linear(R(1), R(0)),                      \* x
      Linear(R(2), R(-1)),                     \* 2x - 1
      Linear(R(1), Eps),                       \* x + 1e-16
      Linear(R(0), R(1)),                      \* 1
      Fn(Zero, R(-1), R(-1), R(1), R(-1)),     \* |x| - 1
      Fn(Zero, R(4), R(1), R(1), R(1)) }       \* 4x + 1 left of 0, x + 1 from 0 on

NewtonX == { R(-2), R(-1), R(0), Rat(1, 2), R(1), R(2) }

NewtonInit ==
    /\ impl \in Impls
    /\ fx \in NewtonFx
    /\ args \in { [xo |-> a, precision |-> p] : a \in NewtonX, p \in Precisions }
    /\ iters = 0
    /\ bis = Idle
    /\ nwt = Called
    /\ sgn = Idle
    /\ ManyIdle

NewtonCall ==
    /\ impl = "root"
    /\ nwt.pc = "call"
    /\ nwt' = newton_root_enter(fx, args.xo, args.precision)
    /\ UNCHANGED << callvars, bis, sgn, manyvars >>

NewtonLoop ==
    /\ impl = "root"
    /\ nwt.pc = "loop"
    /\ iters < MaxIter
    /\ nwt' = newton_root_step(fx, nwt)
    /\ iters' = iters + 1
    /\ UNCHANGED << impl, fx, args, bis, sgn, manyvars >>

LibNewtonCall ==
    /\ impl = "lib"
    /\ nwt.pc = "call"
    /\ nwt' = lib_newton_root_enter(fx, args.xo, args.precision)
    /\ UNCHANGED << callvars, bis, sgn, manyvars >>

LibNewtonLoop ==
    /\ impl = "lib"
    /\ nwt.pc = "loop"
    /\ iters < MaxIter
    /\ nwt' = lib_newton_root_step(fx, nwt)
    /\ iters' = iters + 1
    /\ UNCHANGED << impl, fx, args, bis, sgn, manyvars >>

----------------------------------------------------------------------------
(* calculate_sign_change *)

\* -1 left of 0, from 0 on a value so large that adding -1 to it is rounded
\* away.
Absorbing == Fn(Zero, R(0), R(-1), R(0), R(2^(MantissaBits + 1)))

SignInit ==
    /\ impl \in Impls
    /\ fx \in BisectFx \cup { Absorbing }
    /\ args \in { [xmin |-> a, xmax |-> b] : a \in BisectX, b \in BisectX }
    /\ iters = 0
    /\ bis = Idle
    /\ nwt = Idle
    /\ sgn = Called
    /\ ManyIdle

SignChangeCall ==
    /\ impl = "root"
    /\ sgn.pc = "call"
    /\ sgn' = [pc |-> "returned",
               ret |-> calculate_sign_change(fx, args.xmin, args.xmax)]
    /\ UNCHANGED << callvars, bis, nwt, manyvars >>

LibSignChangeCall ==
    /\ impl = "lib"
    /\ sgn.pc = "call"
    /\ sgn' = [pc |-> "returned",
               ret |-> lib_calculate_sign_change(fx, args.xmin, args.xmax)]
    /\ UNCHANGED << callvars, bis, nwt, manyvars >>

----------------------------------------------------------------------------
(* bissec_root_many.  main is the calling thread: pc "spawn" in the first  *)
(* loop, about to spawn the task for i; "join" in the second loop, about   *)
(* to join threads[j]; "returned" after the return; "panicked" after the   *)
(* unwrap of a partial_cmp of NaN.  A spawned thread is at "spawned"       *)
(* before its closure runs, "running" in a bissec_root that has not        *)
(* returned after MaxIter evaluations of its loop condition, "write"       *)
(* waiting for the write lock, "locked" holding it, "done" at its end.     *)

\* Largest num_intervals of a call.
MaxIntervals == 3

ManyFx ==
    { Linear(R(1), R(0)),                      \* x
      Fn(Zero, R(-1), R(-1), R(1), R(-1)),     \* |x| - 1
      Linear(R(0), R(-1)) }                    \* -1

ManyDomains == { << R(-3), R(3) >>, << R(-2), R(2) >>, << R(0), R(4) >> }

ManyInit ==
    /\ impl \in Impls
    /\ fx \in ManyFx
    /\ args \in { [xmin |-> d[1], xmax |-> d[2], num_intervals |-> n,
                   precision |-> p] :
                    d \in ManyDomains, n \in 1..MaxIntervals,
                    p \in { None, Some(Rat(1, 2)) } }
    /\ iters = 0
    /\ bis = Idle
    /\ nwt = Idle
    /\ sgn = Idle
    /\ main = Called
    /\ threads = << >>
    /\ roots = << >>
    /\ lock = 0
    /\ result = << >>

delx_of(xmin, xmax, num_intervals) ==
    Div(Sub(xmax, xmin), Rat(num_intervals, 1))

\* The state of main at the head of the first loop, i its first value, and at
\* the head of the second when the range is empty.
spawn_loop(indices, delx) ==
    IF indices = {} THEN [pc |-> "join", delx |-> delx, j |-> 1]
    ELSE [pc |-> "spawn", delx |-> delx,
          i |-> CHOOSE i \in indices : \A k \in indices : i <= k]

\* main after spawning the task for main.i.
spawn_next(indices) ==
    IF main.i + 1 \in indices THEN [main EXCEPT !.i = main.i + 1]
    ELSE [pc |-> "join", delx |-> main.delx, j |-> 1]

ManyCall ==
    /\ impl = "root"
    /\ main.pc = "call"
    /\ main' = spawn_loop(task_indices(args.num_intervals),
                          delx_of(args.xmin, args.xmax, args.num_intervals))
    /\ UNCHANGED << callvars, bis, nwt, sgn, threads, roots, lock, result >>

LibManyCall ==
    /\ impl = "lib"
    /\ main.pc = "call"
    /\ main' = spawn_loop(lib_task_indices(args.num_intervals),
                          delx_of(args.xmin, args.xmax, args.num_intervals))
    /\ UNCHANGED << callvars, bis, nwt, sgn, threads, roots, lock, result >>

ManySpawn ==
    /\ impl = "root"
    /\ main.pc = "spawn"
    /\ threads' = Append(threads, [pc |-> "spawned", i |-> main.i])
    /\ main' = spawn_next(task_indices(args.num_intervals))
    /\ UNCHANGED << callvars, bis, nwt, sgn, roots, lock, result >>

LibManySpawn ==
    /\ impl = "lib"
    /\ main.pc = "spawn"
    /\ threads' = Append(threads, [pc |-> "spawned", i |-> main.i])
    /\ main' = spawn_next(lib_task_indices(args.num_intervals))
    /\ UNCHANGED << callvars, bis, nwt, sgn, roots, lock, result >>

\* The thread from the start of its closure to the match on root.
thread_after_bissec(t, interval, fr) ==
    [pc |-> IF fr.pc = "loop" THEN "running"
            ELSE IF fr.ret = None THEN "done" ELSE "write",
     i |-> threads[t].i, xmin_temp |-> interval[1], xmax_temp |-> interval[2],
     root |-> fr.ret]

ThreadRun ==
    /\ impl = "root"
    /\ \E t \in DOMAIN threads :
         /\ threads[t].pc = "spawned"
         /\ LET interval == sub_interval(args.xmin, main.delx, threads[t].i)
                fr == bissec_root(fx, interval[1], interval[2],
                                  args.precision, MaxIter)
            IN  threads' = [threads EXCEPT
                              ![t] = thread_after_bissec(t, interval, fr)]
    /\ UNCHANGED << callvars, bis, nwt, sgn, main, roots, lock, result >>

LibThreadRun ==
    /\ impl = "lib"
    /\ \E t \in DOMAIN threads :
         /\ threads[t].pc = "spawned"
         /\ LET interval == lib_sub_interval(args.xmin, main.delx, threads[t].i)
                fr == lib_bissec_root(fx, interval[1], interval[2],
                                      args.precision, MaxIter)
            IN  threads' = [threads EXCEPT
                              ![t] = thread_after_bissec(t, interval, fr)]
    /\ UNCHANGED << callvars, bis, nwt, sgn, main, roots, lock, result >>

\* roots_ref.write(): granted when no thread holds the lock.
ThreadWrite ==
    /\ \E t \in DOMAIN threads :
         /\ threads[t].pc = "write"
         /\ lock = 0
         /\ lock' = t
         /\ threads' = [threads EXCEPT ![t].pc = "locked"]
    /\ UNCHANGED << callvars, bis, nwt, sgn, main, roots, result >>

\* push(v), and the guard dropped at the end of the statement.
ThreadPush ==
    /\ \E t \in DOMAIN threads :
         /\ threads[t].pc = "locked"
         /\ roots' = Append(roots, threads[t].root[1])
         /\ lock' = 0
         /\ threads' = [threads EXCEPT ![t].pc = "done"]
    /\ UNCHANGED << callvars, bis, nwt, sgn, main, result >>

\* A join that returns without waiting for the thread.
thread_finished_at_once(t) == t \in DOMAIN threads

\* thread.join() returns once the thread has ended.
thread_finished(t) == threads[t].pc = "done"

ManyJoin ==
    /\ main.pc = "join"
    /\ main.j <= Len(threads)
    /\ thread_finished(main.j)
    /\ main' = [main EXCEPT !.j = main.j + 1]
    /\ UNCHANGED << callvars, bis, nwt, sgn, threads, roots, lock, result >>

\* try_unwrap, into_inner, dedup, sort_by and the return.
ManyReturn ==
    /\ main.pc = "join"
    /\ main.j > Len(threads)
    /\ LET deduped == dedup(roots)
       IN  IF \E k \in DOMAIN deduped : IsNaN(deduped[k]) /\ Len(deduped) > 1
           THEN main' = [main EXCEPT !.pc = "panicked"] /\ result' = result
           ELSE main' = [main EXCEPT !.pc = "returned"] /\ result' = sort_by(deduped)
    /\ UNCHANGED << callvars, bis, nwt, sgn, threads, roots, lock >>

NextMany ==
    \/ ManyCall
    \/ LibManyCall
    \/ ManySpawn
    \/ LibManySpawn
    \/ ThreadRun
    \/ LibThreadRun
    \/ ThreadWrite
    \/ ThreadPush
    \/ ManyJoin
    \/ ManyReturn

SpecMany == ManyInit /\ [][NextMany]_vars

----------------------------------------------------------------------------
(* One call of bissec_root, newton_root or calculate_sign_change *)

Init == BisectInit \/ NewtonInit \/ SignInit

Next ==
    \/ BissecCall
    \/ BissecLoop
    \/ LibBissecCall
    \/ LibBissecLoop
    \/ NewtonCall
    \/ NewtonLoop
    \/ LibNewtonCall
    \/ LibNewtonLoop
    \/ SignChangeCall
    \/ LibSignChangeCall

Spec == Init /\ [][Next]_vars

----------------------------------------------------------------------------
(* Claims about bissec_root *)

BisReturned == bis.pc = "returned"
BisEntered == bis.pc \in {"loop", "returned"}
FxMin == Apply(fx, args.xmin)
FxMax == Apply(fx, args.xmax)
SignChangeReported ==
    IF impl = "root" THEN calculate_sign_change(fx, args.xmin, args.xmax)
    ELSE lib_calculate_sign_change(fx, args.xmin, args.xmax)
Midpoint(a, b) == Div(Add(a, b), Two)

\* C1: whenever bissec_root returns Some(r), by an early return or by leaving
\* the loop, with a precision > 0, |f(r)| <= precision.
C1_ReturnedRootWithinPrecision ==
    (BisReturned /\ bis.ret # None /\ Gt(bis.precision, Zero))
        => Le(Abs(Apply(fx, bis.ret[1])), bis.precision)

\* C4: bissec_root returns Some(xmin) without iterating when f(xmin) is exactly
\* 0, otherwise Some(xmax) without iterating when f(xmax) is exactly 0, and no
\* other endpoint value makes it return a value before the loop.
C4_EarlyReturnExactlyAtZeroEndpoints ==
    BisEntered =>
        /\ Eq(FxMin, Zero) => (BisReturned /\ iters = 0 /\ bis.ret = Some(args.xmin))
        /\ (~Eq(FxMin, Zero) /\ Eq(FxMax, Zero))
              => (BisReturned /\ iters = 0 /\ bis.ret = Some(args.xmax))
        /\ (~Eq(FxMin, Zero) /\ ~Eq(FxMax, Zero) /\ BisReturned /\ iters = 0)
              => bis.ret = None

\* C5: when neither f(xmin) nor f(xmax) is exactly 0 and the sign-change
\* detector reports no sign change on [xmin, xmax], bissec_root returns None
\* without entering the loop.
C5_NoSignChangeReturnsNone ==
    (BisEntered /\ ~Eq(FxMin, Zero) /\ ~Eq(FxMax, Zero) /\ ~SignChangeReported)
        => (BisReturned /\ iters = 0 /\ bis.ret = None)

\* C10: once the initial bracket has a sign change, every loop iteration
\* replaces the bracket by the half [xmin, xmed] or [xmed, xmax] of it that
\* retains the sign change, xmed being the midpoint of the bracket before and
\* after: the bracket stays inside the original one, f has opposite nonzero
\* signs at its ends, its width halves, and xmin or xmax changes.
C10_IterationHalvesBracket ==
    [][ (bis.pc = "loop" /\ bis'.pc = "loop" /\ iters' = iters + 1) =>
          /\ bis.xmed = Midpoint(bis.xmin, bis.xmax)
          /\ \/ (bis'.xmin = bis.xmin /\ bis'.xmax = bis.xmed)
             \/ (bis'.xmin = bis.xmed /\ bis'.xmax = bis.xmax)
          /\ bis'.xmed = Midpoint(bis'.xmin, bis'.xmax)
          /\ Le(args.xmin, bis'.xmin)
          /\ Le(bis'.xmax, args.xmax)
          /\ Sgn(Apply(fx, bis'.xmin)) * Sgn(Apply(fx, bis'.xmax)) = -1
          /\ Sub(bis'.xmax, bis'.xmin) = Div(Sub(bis.xmax, bis.xmin), Two)
          /\ << bis'.xmin, bis'.xmax >> # << bis.xmin, bis.xmax >> ]_vars

----------------------------------------------------------------------------
(* Claims about the default precision *)

InLeftOpenEps(v) == Gt(Abs(v), Zero) /\ Le(Abs(v), Eps)

\* C8: with the precision argument None, bissec_root and newton_root use
\* 1e-16 as the threshold on |f(x)|: a point with 0 < |f(x)| <= 1e-16 met by
\* the loop condition is returned as the root.
C8_DefaultPrecisionAcceptsTinyResidual ==
    [][ /\ (bis.pc = "loop" /\ iters' = iters + 1 /\ args.precision = None
              /\ InLeftOpenEps(Apply(fx, bis.xmed)))
            => (bis'.pc = "returned" /\ bis'.ret = Some(bis.xmed))
        /\ (nwt.pc = "loop" /\ iters' = iters + 1 /\ args.precision = None
              /\ InLeftOpenEps(Apply(fx, nwt.xn)))
            => (nwt'.pc = "returned" /\ nwt'.xn = nwt.xn) ]_vars

----------------------------------------------------------------------------
(* Claims about newton_root *)

\* The estimate of the last of the 20 steps: the central difference at
\* h = 1/2^19.
LastCentralDifference(x) ==
    LET h == Rat(1, 2^19)
    IN  Div(Sub(Apply(fx, Add(x, h)), Apply(fx, Sub(x, h))), Mul(Two, h))

NewtonUpdate(x) == Sub(x, Div(Apply(fx, x), LastCentralDifference(x)))

NewtonEvaluates == nwt.pc = "loop" /\ iters' = iters + 1

\* C9: newton_root returns x0 unchanged when |f(x0)| <= precision; otherwise it
\* replaces x by x - f(x)/calculate_derivative(f, x) until the first iterate
\* with |f(x)| <= precision, which it returns: a returned value has residual at
\* most precision.
C9_NewtonReturnsWithinPrecision ==
    /\ [][ NewtonEvaluates =>
             IF Le(Abs(Apply(fx, nwt.xn)), nwt.precision)
             THEN nwt'.pc = "returned" /\ nwt'.xn = nwt.xn
             ELSE nwt'.pc = "loop" /\ nwt'.xn = NewtonUpdate(nwt.xn) ]_vars
    /\ [](nwt.pc = "returned" => Le(Abs(Apply(fx, nwt.xn)), nwt.precision))

----------------------------------------------------------------------------
(* Claims about calculate_sign_change *)

OppositeSigns(u, v) == Sgn(u) * Sgn(v) = -1

\* C3: calculate_sign_change(f, a, b) is true exactly when f(a) and f(b) are
\* both nonzero and of strictly opposite sign: false whenever f(a) = 0 or
\* f(b) = 0, whenever both have the same sign, and whenever a = b.
C3_SignChangeIffOppositeSigns ==
    sgn.pc = "returned" =>
        /\ sgn.ret <=> OppositeSigns(Apply(fx, args.xmin), Apply(fx, args.xmax))
        /\ (Apply(fx, args.xmin) = Zero \/ Apply(fx, args.xmax) = Zero) => ~sgn.ret
        /\ args.xmin = args.xmax => ~sgn.ret


----------------------------------------------------------------------------
(* Claims about bissec_root_many *)

ManyReturned == main.pc = "returned"

Count(v, x) == Cardinality({ k \in DOMAIN v : v[k] = x })

\* C2: whatever the order of the appends, the sequence bissec_root_many
\* returns is strictly ascending: no two of its values are equal.
C2_ResultStrictlyAscending ==
    ManyReturned =>
        \A k \in 1 .. (Len(result) - 1) : Lt(result[k], result[k + 1])

AllSpawned == main.pc \in { "join", "returned", "panicked" }

ClaimedInterval(i) ==
    << Add(args.xmin, Mul(R(i), main.delx)),
       Add(args.xmin, Mul(R(i + 1), main.delx)) >>

\* C6: for num_intervals = n >= 1 exactly n tasks are spawned, the i-th on
\* [xmin + i*delx, xmin + (i+1)*delx] with delx = (xmax - xmin)/n: no interval
\* is of zero width or outside [xmin, xmax], consecutive ones are adjacent, and
\* the first starts at xmin, the last ends at xmax.
C6_OneTaskPerSubInterval ==
    /\ AllSpawned => Len(threads) = args.num_intervals
    /\ \A t \in DOMAIN threads :
         threads[t].pc # "spawned" =>
            /\ main.delx = Div(Sub(args.xmax, args.xmin), R(args.num_intervals))
            /\ threads[t].i = t - 1
            /\ << threads[t].xmin_temp, threads[t].xmax_temp >> = ClaimedInterval(t - 1)
            /\ Lt(threads[t].xmin_temp, threads[t].xmax_temp)
            /\ Le(args.xmin, threads[t].xmin_temp)
            /\ Le(threads[t].xmax_temp, args.xmax)
            /\ t = 1 => threads[t].xmin_temp = args.xmin
            /\ t = args.num_intervals => threads[t].xmax_temp = args.xmax
            /\ (t > 1 /\ threads[t - 1].pc # "spawned")
                  => threads[t - 1].xmax_temp = threads[t].xmin_temp

\* C7: bissec_root_many returns only after every spawned task has finished;
\* the collector then holds one entry for each task whose bissec_root returned
\* Some(v), none for a task that returned None, and nothing is appended after
\* the result is taken; at most one thread holds the write lock, and an append
\* adds one entry and alters no other.
C7_ReturnsAfterAllTasksWithTheirRoots ==
    /\ [](ManyReturned =>
            /\ \A t \in DOMAIN threads : threads[t].pc = "done"
            /\ Len(roots) = Cardinality({ t \in DOMAIN threads : threads[t].root # None })
            /\ \A t \in DOMAIN threads :
                 threads[t].root # None =>
                    Count(roots, threads[t].root[1])
                      = Cardinality({ u \in DOMAIN threads :
                                        threads[u].root = threads[t].root }))
    /\ [](Cardinality({ t \in DOMAIN threads : threads[t].pc = "locked" }) <= 1)
    /\ [][ /\ roots' # roots =>
                /\ main.pc \in { "spawn", "join" }
                /\ main.pc = "join" => main.j <= Len(threads)
                /\ Len(roots') = Len(roots) + 1
                /\ SubSeq(roots', 1, Len(roots)) = roots
           /\ ManyReturned => roots' = roots ]_vars

\* A return after three tasks, two of which appended a root, the append of the
\* later-spawned one first.
C7_Witness ==
    /\ ManyReturned
    /\ Len(threads) = 3
    /\ Len(roots) = 2
    /\ \E t, u \in DOMAIN threads :
         /\ t < u
         /\ threads[t].root # None
         /\ threads[u].root # None
         /\ threads[t].root # threads[u].root
         /\ roots = << threads[u].root[1], threads[t].root[1] >>
    /\ \E t \in DOMAIN threads : threads[t].root = None

====
